---- MODULE Spec2Model ----
(***************************************************************************)
(* Model of equation_parser.py: the batch loop of parse_equations_file,    *)
(* parse_equation, the normalizer, the piecewise handler, the relation     *)
(* splitter and the classifier cascade.                                    *)
(*                                                                         *)
(* A text is a sequence of characters and a character is a one-character   *)
(* string.  The four non-ASCII characters the normalizer rewrites are      *)
(* written "le" (U+2264), "ge" (U+2265), "sup2" (U+00B2), "sup3" (U+00B3). *)
(***************************************************************************)
EXTENDS Integers, Sequences, FiniteSets, TLC

VARIABLES lines, i, equations, pc, result, last, norm_line

vars == <<lines, i, equations, pc, result, last, norm_line>>

(***************************************************************************)
(* Characters and str methods                                              *)
(***************************************************************************)

\* The alphanumeric characters in code point order (the order of sorted()).
Alnum ==
  << "0", "1", "2", "3", "4", "5", "6", "7", "8", "9",
     "A", "B", "C", "D", "E", "F", "G", "H", "I", "J", "K", "L", "M",
     "N", "O", "P", "Q", "R", "S", "T", "U", "V", "W", "X", "Y", "Z",
     "a", "b", "c", "d", "e", "f", "g", "h", "i", "j", "k", "l", "m",
     "n", "o", "p", "q", "r", "s", "t", "u", "v", "w", "x", "y", "z" >>

Digits == {"0", "1", "2", "3", "4", "5", "6", "7", "8", "9"}

Letters == {Alnum[k] : k \in 1..Len(Alnum)} \ Digits

IsDigit(c) == c \in Digits

IsLetter(c) == c \in Letters

Ord(c) == CHOOSE k \in 1..Len(Alnum) : Alnum[k] = c

SetMin(S) == CHOOSE a \in S : \A b \in S : a <= b

SetMax(S) == CHOOSE a \in S : \A b \in S : a >= b

\* str.strip(): the text without its leading and trailing blanks.
Strip(s) ==
  LET ink == {k \in 1..Len(s) : s[k] # " "}
  IN  IF ink = {} THEN <<>> ELSE SubSeq(s, SetMin(ink), SetMax(ink))

\* Whether sub occurs in s at position p.
OccursAt(sub, s, p) ==
  /\ p >= 1
  /\ p + Len(sub) - 1 <= Len(s)
  /\ SubSeq(s, p, p + Len(sub) - 1) = sub

\* sub in s
Contains(sub, s) == \E p \in 1..Len(s) : OccursAt(sub, s, p)

\* str.find(): the leftmost position of sub in s (0 when there is none).
Find(sub, s) ==
  IF Contains(sub, s) THEN SetMin({p \in 1..Len(s) : OccursAt(sub, s, p)}) ELSE 0

\* str.rfind(): the rightmost position of sub in s (0 when there is none).
RFind(sub, s) ==
  IF Contains(sub, s) THEN SetMax({p \in 1..Len(s) : OccursAt(sub, s, p)}) ELSE 0

\* str.split(sep, 1) of a text that contains sep: the texts before and after
\* the leftmost occurrence.
SplitOnce(s, sep) ==
  LET p == Find(sep, s)
  IN  << SubSeq(s, 1, p - 1), SubSeq(s, p + Len(sep), Len(s)) >>

\* str.split(sep) for a one-character separator: all the pieces, in order.
RECURSIVE SplitAll(_, _)
SplitAll(s, c) ==
  IF ~ Contains(<<c>>, s) THEN << s >>
  ELSE LET p == Find(<<c>>, s)
       IN  << SubSeq(s, 1, p - 1) >> \o SplitAll(SubSeq(s, p + 1, Len(s)), c)

\* str.replace(c, by) for a one-character c.
RECURSIVE ReplaceChar(_, _, _)
ReplaceChar(s, c, by) ==
  IF s = <<>> THEN <<>>
  ELSE (IF Head(s) = c THEN by ELSE << Head(s) >>) \o ReplaceChar(Tail(s), c, by)

\* The number of leading blanks of s from position p on.
RECURSIVE SkipSpaces(_, _)
SkipSpaces(s, p) ==
  IF p <= Len(s) /\ s[p] = " " THEN SkipSpaces(s, p + 1) ELSE p

(***************************************************************************)
(* _normalize_line                                                         *)
(***************************************************************************)

\* re.sub(r"\^(\d+)", r"**\1") then re.sub(r"\^([a-zA-Z]+)", r"**\1"): a caret
\* directly followed by a digit or by a letter becomes "**".
RECURSIVE CaretPowers(_)
CaretPowers(s) ==
  IF s = <<>> THEN <<>>
  ELSE IF Head(s) = "^" /\ Len(s) >= 2 /\ (IsDigit(s[2]) \/ IsLetter(s[2]))
       THEN << "*", "*" >> \o CaretPowers(Tail(s))
       ELSE << Head(s) >> \o CaretPowers(Tail(s))

\* re.sub(r"(\d)\s*([a-zA-Z\(])", r"\1*\2"): a digit, any blanks, then a letter
\* or "(" become digit "*" character; the scan goes on after the match.
RECURSIVE ImplicitMul(_)
ImplicitMul(s) ==
  IF s = <<>> THEN <<>>
  ELSE LET q == SkipSpaces(s, 2)
       IN  IF IsDigit(Head(s)) /\ q <= Len(s) /\ (IsLetter(s[q]) \/ s[q] = "(")
           THEN << Head(s), "*", s[q] >> \o ImplicitMul(SubSeq(s, q + 1, Len(s)))
           ELSE << Head(s) >> \o ImplicitMul(Tail(s))

\* re.sub(r"\)\s*\(", r")*("): ")" any blanks "(" become ")*(".
RECURSIVE ParenMul(_)
ParenMul(s) ==
  IF s = <<>> THEN <<>>
  ELSE LET q == SkipSpaces(s, 2)
       IN  IF Head(s) = ")" /\ q <= Len(s) /\ s[q] = "("
           THEN << ")", "*", "(" >> \o ParenMul(SubSeq(s, q + 1, Len(s)))
           ELSE << Head(s) >> \o ParenMul(Tail(s))

\* A wrong search for the pattern of line 51: the rightmost bar that is
\* followed by a character other than a bar and then by a bar.
AbsMatchStartLast(s) ==
  LET ok == {p \in 1..Len(s) :
               /\ s[p] = "|"
               /\ p + 1 <= Len(s)
               /\ s[p + 1] # "|"
               /\ \E q \in (p + 2)..Len(s) : s[q] = "|"}
  IN  IF ok = {} THEN 0 ELSE SetMax(ok)

\* re.search(r"\|\s*([^|]+)\s*\|", line): the leftmost bar that is followed
\* by at least one character other than a bar and then by a bar; 0 when no
\* bar is.
AbsMatchStart(s) ==
  LET ok == {p \in 1..Len(s) :
               /\ s[p] = "|"
               /\ p + 1 <= Len(s)
               /\ s[p + 1] # "|"
               /\ \E q \in (p + 2)..Len(s) : s[q] = "|"}
  IN  IF ok = {} THEN 0 ELSE SetMin(ok)

\* Lines 54-55: the match that starts at p, which ends at the next bar, is
\* replaced by Abs(inner), inner being what stands between the bars, trimmed.
AbsWrap(s, p) ==
  LET q == SetMin({k \in (p + 2)..Len(s) : s[k] = "|"})
      inner == Strip(SubSeq(s, p + 1, q - 1))
  IN  SubSeq(s, 1, p - 1) \o << "A", "b", "s", "(" >>
        \o inner \o << ")" >> \o SubSeq(s, q + 1, Len(s))

\* The while loop of lines 50-55: replace the match by Abs(inner), until no
\* bar is left or nothing matches.
RECURSIVE AbsBars(_)
AbsBars(s) ==
  IF ~ Contains(<<"|">>, s) THEN s
  ELSE LET p == AbsMatchStart(s)
       IN  IF p = 0 THEN s ELSE AbsBars(AbsWrap(s, p))

\* Lines 32-47: the trimmed text after the rewriting of the relation signs,
\* the superscripts, the carets and the implicit products.
Rewritten(line) ==
  LET l0 == Strip(line)
      l1 == ReplaceChar(ReplaceChar(l0, "le", << "<", "=" >>), "ge", << ">", "=" >>)
      l2 == ReplaceChar(ReplaceChar(l1, "sup2", << "*", "*", "2" >>),
                        "sup3", << "*", "*", "3" >>)
      l3 == CaretPowers(l2)
      l4 == ImplicitMul(l3)
  IN  ParenMul(l4)

NormalizeLine(line) ==
  IF Strip(line) = <<>> THEN <<>> ELSE AbsBars(Rewritten(line))

(***************************************************************************)
(* _detect_relation                                                        *)
(***************************************************************************)

\* The characters of a relation operator.
RelChars(rel) ==
  CASE rel = ">=" -> << ">", "=" >>
    [] rel = "<=" -> << "<", "=" >>
    [] rel = "="  -> << "=" >>
    [] rel = ">"  -> << ">" >>
    [] rel = "<"  -> << "<" >>

\* A wrong order: the one-character operators first.
RelOrderSingleFirst == << "=", ">", "<", ">=", "<=" >>

\* The list the for loop of line 109 goes through.
RelOrder == << ">=", "<=", "=", ">", "<" >>

RECURSIVE DetectFrom(_, _)
DetectFrom(normalized, k) ==
  IF k > Len(RelOrder)
  THEN [relation |-> "", lhs |-> normalized, rhs |-> <<>>]
  ELSE IF Contains(RelChars(RelOrder[k]), normalized)
       THEN LET parts == SplitOnce(normalized, RelChars(RelOrder[k]))
            IN  [relation |-> RelOrder[k], lhs |-> Strip(parts[1]),
                 rhs |-> Strip(parts[2])]
       ELSE DetectFrom(normalized, k + 1)

DetectRelation(normalized) == DetectFrom(normalized, 1)

(***************************************************************************)
(* SymPy expressions.                                                      *)
(*                                                                         *)
(* SymPy keeps a sum or a product flat, with like terms and equal factors  *)
(* collected, so the value of an expression is modelled by that form: a    *)
(* set of terms [m, c], c a non-zero integer coefficient and m a monomial, *)
(* a set of factors [g, e] with e a non-zero integer exponent.  A          *)
(* generator g is a Symbol ("sym"), an applied function ("fn": log, Abs or *)
(* an undefined function such as f), a power whose exponent is not an      *)
(* integer constant ("pow", base arg and exponent ex) or a square root     *)
(* ("sqrt", Pow(arg, 1/2)).  The integer 0 is the empty set of terms.      *)
(***************************************************************************)

SymGen(name) == [g |-> "sym", name |-> name, arg |-> {}, ex |-> {}]

FnGen(name, arg) == [g |-> "fn", name |-> name, arg |-> arg, ex |-> {}]

PowGen(base, ex) == [g |-> "pow", name |-> <<>>, arg |-> base, ex |-> ex]

SqrtGen(base) == [g |-> "sqrt", name |-> <<>>, arg |-> base, ex |-> {}]

Const(c) == IF c = 0 THEN {} ELSE {[m |-> {}, c |-> c]}

GenPower(g, e) == IF e = 0 THEN Const(1) ELSE {[m |-> {[g |-> g, e |-> e]}, c |-> 1]}

\* The coefficient of monomial m in p.
Coef(p, m) == IF \E t \in p : t.m = m THEN (CHOOSE t \in p : t.m = m).c ELSE 0

\* The exponent of generator g in monomial m.
ExpOf(m, g) == IF \E f \in m : f.g = g THEN (CHOOSE f \in m : f.g = g).e ELSE 0

\* Add: like terms are collected and a zero coefficient drops the term.
PAdd(p, q) ==
  LET ms == {t.m : t \in p \cup q}
  IN  {[m |-> m, c |-> Coef(p, m) + Coef(q, m)] :
         m \in {mm \in ms : Coef(p, mm) + Coef(q, mm) # 0}}

PNeg(p) == {[m |-> t.m, c |-> 0 - t.c] : t \in p}

\* lhs - rhs of two expressions.
PSub(p, q) == PAdd(p, PNeg(q))

\* Mul of two monomials: the exponents of equal bases add up.
MMul(m1, m2) ==
  LET gs == {f.g : f \in m1 \cup m2}
  IN  {[g |-> g, e |-> ExpOf(m1, g) + ExpOf(m2, g)] :
         g \in {gg \in gs : ExpOf(m1, gg) + ExpOf(m2, gg) # 0}}

RECURSIVE PMul(_, _)
PMul(p, q) ==
  IF p = {} THEN {}
  ELSE LET t == CHOOSE tt \in p : TRUE
       IN  PAdd({[m |-> MMul(t.m, u.m), c |-> t.c * u.c] : u \in q},
                PMul(p \ {t}, q))

IsConst(p) == p = {} \/ (Cardinality(p) = 1 /\ \A t \in p : t.m = {})

ConstVal(p) == Coef(p, {})

IsSingleTerm(p) == Cardinality(p) = 1

TheTerm(p) == CHOOSE t \in p : TRUE

\* A term that is one generator to the power 1 with coefficient 1.
IsBareGen(p) ==
  /\ IsSingleTerm(p)
  /\ TheTerm(p).c = 1
  /\ Cardinality(TheTerm(p).m) = 1
  /\ \A f \in TheTerm(p).m : f.e = 1

TheGen(p) == (CHOOSE f \in TheTerm(p).m : TRUE).g

RECURSIVE IntPow(_, _)
IntPow(c, n) == IF n = 0 THEN 1 ELSE c * IntPow(c, n - 1)

AbsInt(c) == IF c < 0 THEN 0 - c ELSE c

\* free_symbols: the names of the Symbols of an expression.
RECURSIVE FreeSymsP(_)
FreeSymsP(p) ==
  UNION { UNION { IF f.g.g = "sym" THEN {f.g.name}
                  ELSE FreeSymsP(f.g.arg) \cup FreeSymsP(f.g.ex) : f \in t.m } : t \in p }

(***************************************************************************)
(* The objects sympify returns: an Expr ("expr", p), an unevaluated        *)
(* Relational ("rel": p op r), a boolean ("bool": a comparison SymPy or    *)
(* Python decided) or a Python set or dict ("pyset": a text in braces).    *)
(***************************************************************************)

ExprV(p) == [k |-> "expr", p |-> p, op |-> "", r |-> {}, b |-> FALSE]

RelV(op, l, r) == [k |-> "rel", p |-> l, op |-> op, r |-> r, b |-> FALSE]

BoolV(b) == [k |-> "bool", p |-> {}, op |-> "", r |-> {}, b |-> b]

PySetV == [k |-> "pyset", p |-> {}, op |-> "", r |-> {}, b |-> FALSE]

\* getattr(v, "free_symbols", set()), as names.
FreeSyms(v) ==
  CASE v.k = "expr" -> FreeSymsP(v.p)
    [] v.k = "rel"  -> FreeSymsP(v.p) \cup FreeSymsP(v.r)
    [] OTHER        -> {}

(***************************************************************************)
(* sympify(text).  SymPy tokenizes the text as Python, turns names into    *)
(* Symbols (a name followed by "(" into a function), integers into         *)
(* Integers and "^" into "**", and evaluates the result as Python.  The    *)
(* model parses the Python expression grammar                              *)
(*   comparison: sum (cmp sum)*     sum: term (("+"|"-") term)*            *)
(*   term: unary (("*"|"/") unary)* unary: "-" unary | power               *)
(*   power: atom ["**" unary]       atom: NUMBER | NAME | NAME "(" sum ")" *)
(*                                        | "{" [comparison ("," ...)*] "}"*)
(* and evaluates as SymPy does.  A result has st = "ok" (with the value v  *)
(* and the position pos after it), "err" (sympify raises) or "out": the    *)
(* text leaves the fragment modelled here (grouping parentheses, rational  *)
(* numbers, floats, names SymPy predefines, function arguments SymPy       *)
(* rewrites); no line of the input sets below does.                        *)
(***************************************************************************)

Tk(t, v, name) == [t |-> t, v |-> v, name |-> name]

RECURSIVE DigitRunEnd(_, _)
DigitRunEnd(s, p) ==
  IF p <= Len(s) /\ IsDigit(s[p]) THEN DigitRunEnd(s, p + 1) ELSE p

RECURSIVE NameRunEnd(_, _)
NameRunEnd(s, p) ==
  IF p <= Len(s) /\ (IsDigit(s[p]) \/ IsLetter(s[p])) THEN NameRunEnd(s, p + 1) ELSE p

RECURSIVE NumVal(_)
NumVal(ds) ==
  IF ds = <<>> THEN 0
  ELSE 10 * NumVal(SubSeq(ds, 1, Len(ds) - 1)) + (Ord(ds[Len(ds)]) - 1)

\* A decimal literal with a leading zero is no Python literal, unless all of
\* it is zeros.
BadLiteral(ds) == Len(ds) >= 2 /\ ds[1] = "0" /\ \E k \in 1..Len(ds) : ds[k] # "0"

OneCharTokens == {"+", "-", "/", "(", ")", "{", "}", ","}

RECURSIVE Tokenize(_, _)
Tokenize(s, p) ==
  IF p > Len(s) THEN <<>>
  ELSE LET c == s[p]
           two == IF p + 1 <= Len(s) THEN s[p + 1] ELSE ""
       IN  CASE c = " " -> Tokenize(s, p + 1)
             [] IsDigit(c) ->
                  LET q == DigitRunEnd(s, p)
                      ds == SubSeq(s, p, q - 1)
                  IN  << IF BadLiteral(ds) \/ (q <= Len(s) /\ IsLetter(s[q]))
                         THEN Tk("bad", 0, <<>>) ELSE Tk("num", NumVal(ds), <<>>) >>
                      \o Tokenize(s, q)
             [] IsLetter(c) ->
                  LET q == NameRunEnd(s, p)
                  IN  << Tk("id", 0, SubSeq(s, p, q - 1)) >> \o Tokenize(s, q)
             [] c = "*" ->
                  IF two = "*" THEN << Tk("**", 0, <<>>) >> \o Tokenize(s, p + 2)
                  ELSE << Tk("*", 0, <<>>) >> \o Tokenize(s, p + 1)
             [] c = "^" -> << Tk("**", 0, <<>>) >> \o Tokenize(s, p + 1)
             [] c \in {"<", ">"} ->
                  IF two = "=" THEN << Tk(c \o "=", 0, <<>>) >> \o Tokenize(s, p + 2)
                  ELSE << Tk(c, 0, <<>>) >> \o Tokenize(s, p + 1)
             [] c = "=" ->
                  IF two = "=" THEN << Tk("==", 0, <<>>) >> \o Tokenize(s, p + 2)
                  ELSE << Tk("bad", 0, <<>>) >> \o Tokenize(s, p + 1)
             [] c = ";" -> << Tk("bad", 0, <<>>) >> \o Tokenize(s, p + 1)
             [] c \in OneCharTokens -> << Tk(c, 0, <<>>) >> \o Tokenize(s, p + 1)
             [] OTHER -> << Tk("out", 0, <<>>) >> \o Tokenize(s, p + 1)

R(st, v, pos) == [st |-> st, v |-> v, pos |-> pos]

Err == R("err", ExprV({}), 0)

Out == R("out", ExprV({}), 0)

Ok(p, pos) == R("ok", ExprV(p), pos)

TokAt(ts, p) == IF p <= Len(ts) THEN ts[p].t ELSE "end"

\* The names that stand for Symbols in the modelled fragment: names made of
\* x, y, X, Y and digits, none of which SymPy predefines.
SymbolChars == {"x", "y", "X", "Y"} \cup Digits

IsSymbolName(name) == \A k \in 1..Len(name) : name[k] \in SymbolChars

\* Abs(arg), log(arg), sqrt(arg) and an undefined function applied.
ApplyAbs(a) ==
  IF IsConst(a) THEN Ok(Const(AbsInt(ConstVal(a))), 0)
  ELSE IF IsSingleTerm(a)
       THEN IF Cardinality(TheTerm(a).m) = 1
               /\ \A f \in TheTerm(a).m : f.e = 1 /\ f.g.g = "sym"
            THEN Ok(PMul(Const(AbsInt(TheTerm(a).c)),
                         GenPower(FnGen(<<"A", "b", "s">>,
                                        {[m |-> TheTerm(a).m, c |-> 1]}), 1)), 0)
            ELSE Out
       ELSE Ok(GenPower(FnGen(<<"A", "b", "s">>, a), 1), 0)

ApplyLog(a) ==
  IF IsConst(a)
  THEN IF ConstVal(a) = 1 THEN Ok(Const(0), 0)
       ELSE IF ConstVal(a) >= 2 THEN Ok(GenPower(FnGen(<<"l", "o", "g">>, a), 1), 0)
       ELSE Out
  ELSE IF IsBareGen(a) \/ ~ IsSingleTerm(a)
       THEN Ok(GenPower(FnGen(<<"l", "o", "g">>, a), 1), 0)
       ELSE Out

ApplySqrt(a) ==
  IF IsConst(a)
  THEN CASE ConstVal(a) = 0 -> Ok(Const(0), 0)
         [] ConstVal(a) = 1 -> Ok(Const(1), 0)
         [] ConstVal(a) = 4 -> Ok(Const(2), 0)
         [] ConstVal(a) = 9 -> Ok(Const(3), 0)
         [] ConstVal(a) \in {2, 3} -> Ok(GenPower(SqrtGen(a), 1), 0)
         [] OTHER -> Out
  ELSE IF IsBareGen(a) /\ TheGen(a).g = "sym" THEN Ok(GenPower(SqrtGen(a), 1), 0)
       ELSE Out

ApplyFn(name, a) ==
  CASE name = <<"A", "b", "s">> -> ApplyAbs(a)
    [] name = <<"l", "o", "g">> -> ApplyLog(a)
    [] name = <<"s", "q", "r", "t">> -> ApplySqrt(a)
    [] name \in {<<"f">>, <<"F">>} -> Ok(GenPower(FnGen(name, a), 1), 0)
    [] OTHER -> Out

\* Pow(base, exp) of two atoms' values.
MkPow(b, e) ==
  IF IsConst(e)
  THEN LET n == ConstVal(e)
       IN  IF IsConst(b)
           THEN IF n >= 0 THEN Ok(Const(IntPow(ConstVal(b), n)), 0)
                ELSE IF ConstVal(b) = 1 THEN Ok(Const(1), 0) ELSE Out
           ELSE IF IsBareGen(b) /\ TheGen(b).g \in {"sym", "fn"}
                THEN Ok(GenPower(TheGen(b), n), 0)
                ELSE Out
  ELSE IF IsSingleTerm(e) /\ TheTerm(e).c > 0
          /\ \/ IsConst(b) /\ ConstVal(b) >= 2
             \/ IsBareGen(b) /\ TheGen(b).g = "sym"
       THEN Ok(GenPower(PowGen(b, e), 1), 0)
       ELSE Out

\* a / b: b a single term with coefficient 1 or -1 (no rational numbers).
MkDiv(a, b) ==
  IF IsSingleTerm(b) /\ TheTerm(b).c \in {1, -1}
     /\ \A f \in TheTerm(b).m : f.g.g \in {"sym", "fn"}
  THEN Ok(PMul(a, {[m |-> {[g |-> f.g, e |-> 0 - f.e] : f \in TheTerm(b).m},
                    c |-> TheTerm(b).c]}), 0)
  ELSE Out

\* A comparison of two expressions: decided when the difference is a number
\* (and "==" always, structurally), an unevaluated Relational otherwise.
Compare(op, l, r) ==
  LET d == PSub(l, r)
      n == ConstVal(d)
  IN  IF op = "==" THEN BoolV(l = r)
      ELSE IF IsConst(d)
           THEN BoolV(CASE op = "<"  -> n < 0
                        [] op = ">"  -> n > 0
                        [] op = "<=" -> n <= 0
                        [] op = ">=" -> n >= 0)
           ELSE RelV(op, l, r)

CmpTokens == {"<", ">", "<=", ">=", "=="}

\* The parser, one nonterminal nt at a time, from token p on.  acc is the
\* value built so far ("termrest", "sumrest" and, as the truth value of the
\* chain, "cmprest") and l the left operand of the next comparison.
RECURSIVE Parse(_, _, _, _, _)
Parse(nt, ts, p, acc, l) ==
  CASE nt = "atom" ->
         LET t == TokAt(ts, p)
         IN  CASE t = "num" -> Ok(Const(ts[p].v), p + 1)
               [] t = "id" ->
                    IF TokAt(ts, p + 1) = "("
                    THEN LET a == Parse("sum", ts, p + 2, acc, l)
                         IN  IF a.st # "ok" THEN a
                             ELSE IF TokAt(ts, a.pos) = ")"
                                  THEN LET f == ApplyFn(ts[p].name, a.v.p)
                                       IN  IF f.st = "ok" THEN R("ok", f.v, a.pos + 1)
                                           ELSE f
                                  ELSE IF TokAt(ts, a.pos) \in {","} \cup CmpTokens
                                       THEN Out ELSE Err
                    ELSE IF IsSymbolName(ts[p].name)
                         THEN Ok(GenPower(SymGen(ts[p].name), 1), p + 1)
                         ELSE Out
               [] t = "{" ->
                    IF TokAt(ts, p + 1) = "}" THEN R("ok", PySetV, p + 2)
                    ELSE LET a == Parse("items", ts, p + 1, acc, l)
                         IN  IF a.st # "ok" THEN a
                             ELSE IF TokAt(ts, a.pos) = "}" THEN R("ok", PySetV, a.pos + 1)
                             ELSE Err
               [] t \in {"(", "out"} -> Out
               [] OTHER -> Err
    [] nt = "items" ->
         \* The items of a set display, separated by commas.
         LET a == Parse("cmp", ts, p, acc, l)
         IN  IF a.st # "ok" THEN a
             ELSE IF TokAt(ts, a.pos) = "," THEN Parse("items", ts, a.pos + 1, acc, l)
             ELSE a
    [] nt = "power" ->
         LET a == Parse("atom", ts, p, acc, l)
         IN  IF a.st # "ok" THEN a
             ELSE IF TokAt(ts, a.pos) = "**"
                  THEN LET e == Parse("unary", ts, a.pos + 1, acc, l)
                       IN  IF e.st # "ok" THEN e
                           ELSE IF a.v.k # "expr" \/ e.v.k # "expr" THEN Out
                           ELSE LET w == MkPow(a.v.p, e.v.p)
                                IN  IF w.st = "ok" THEN R("ok", w.v, e.pos) ELSE w
                  ELSE a
    [] nt = "unary" ->
         IF TokAt(ts, p) \in {"-", "+"}
         THEN LET a == Parse("unary", ts, p + 1, acc, l)
              IN  IF a.st # "ok" THEN a
                  ELSE IF a.v.k # "expr" THEN Out
                  ELSE IF ts[p].t = "-" THEN Ok(PNeg(a.v.p), a.pos)
                  ELSE a
         ELSE Parse("power", ts, p, acc, l)
    [] nt = "term" ->
         LET a == Parse("unary", ts, p, acc, l)
         IN  IF a.st # "ok" THEN a ELSE Parse("termrest", ts, a.pos, a.v, l)
    [] nt = "termrest" ->
         IF TokAt(ts, p) \in {"*", "/"}
         THEN LET b == Parse("unary", ts, p + 1, acc, l)
              IN  IF b.st # "ok" THEN b
                  ELSE IF acc.k # "expr" \/ b.v.k # "expr" THEN Out
                  ELSE LET w == IF ts[p].t = "*" THEN Ok(PMul(acc.p, b.v.p), 0)
                                ELSE MkDiv(acc.p, b.v.p)
                       IN  IF w.st = "ok" THEN Parse("termrest", ts, b.pos, w.v, l)
                           ELSE w
         ELSE R("ok", acc, p)
    [] nt = "sum" ->
         LET a == Parse("term", ts, p, acc, l)
         IN  IF a.st # "ok" THEN a ELSE Parse("sumrest", ts, a.pos, a.v, l)
    [] nt = "sumrest" ->
         IF TokAt(ts, p) \in {"+", "-"}
         THEN LET b == Parse("term", ts, p + 1, acc, l)
              IN  IF b.st # "ok" THEN b
                  ELSE IF acc.k # "expr" \/ b.v.k # "expr" THEN Out
                  ELSE Parse("sumrest", ts, b.pos,
                             ExprV(IF ts[p].t = "+" THEN PAdd(acc.p, b.v.p)
                                   ELSE PSub(acc.p, b.v.p)), l)
         ELSE R("ok", acc, p)
    [] nt = "cmp" ->
         LET a == Parse("sum", ts, p, acc, l)
         IN  IF a.st # "ok" THEN a ELSE Parse("cmprest", ts, a.pos, a.v, a.v)
    [] nt = "cmprest" ->
         \* a op b op c is (a op b) and (b op c): Python asks the first
         \* comparison for its truth value, which an unevaluated Relational
         \* refuses (TypeError).
         IF TokAt(ts, p) \in CmpTokens
         THEN LET b == Parse("sum", ts, p + 1, acc, l)
              IN  IF b.st # "ok" THEN b
                  ELSE IF l.k # "expr" \/ b.v.k # "expr" THEN Out
                  ELSE IF acc.k = "rel" THEN Err
                  ELSE IF acc.k = "bool" /\ ~ acc.b
                       THEN Parse("cmprest", ts, b.pos, acc, b.v)
                  ELSE Parse("cmprest", ts, b.pos, Compare(ts[p].t, l.p, b.v.p), b.v)
         ELSE R("ok", acc, p)

\* sympify(text): the value, or "err" when sympify raises.
Sympify(text) ==
  LET ts == Tokenize(text, 1)
      a == Parse("cmp", ts, 1, ExprV({}), ExprV({}))
  IN  IF \E k \in 1..Len(ts) : ts[k].t = "bad" THEN Err
      ELSE IF a.st # "ok" THEN a
      ELSE IF a.pos = Len(ts) + 1 THEN a
      ELSE IF TokAt(ts, a.pos) = "," THEN Out
      ELSE Err

(***************************************************************************)
(* _expr_to_json: the canonical JSON of a value.  A node is                *)
(* [type, name, value, args]: name holds the node's "name", "relation" or  *)
(* string "value" as a text, value its integer "value", args its children  *)
(* in order ("terms", "factors", "arguments", base and exponent, lhs and   *)
(* rhs, "operand", "branches").  The order SymPy keeps the arguments of a  *)
(* sum or product in is not modelled: the children are put in a fixed      *)
(* order.                                                                  *)
(***************************************************************************)

Node(type, name, value, args) ==
  [type |-> type, name |-> name, value |-> value, args |-> args]

RECURSIVE SetToSeq(_)
SetToSeq(S) ==
  IF S = {} THEN <<>>
  ELSE LET a == CHOOSE b \in S : TRUE IN << a >> \o SetToSeq(S \ {a})

RECURSIVE PolyJson(_), TermJson(_), FactorJson(_), GenJson(_)

GenJson(g) ==
  CASE g.g = "sym" -> Node("variable", g.name, 0, <<>>)
    [] g.g = "fn" /\ g.name = <<"A", "b", "s">> ->
         Node("absolute_value", <<>>, 0, << PolyJson(g.arg) >>)
    [] g.g = "fn" /\ g.name # <<"A", "b", "s">> ->
         Node("function_call", g.name, 0, << PolyJson(g.arg) >>)
    [] g.g = "pow" -> Node("power", <<>>, 0, << PolyJson(g.arg), PolyJson(g.ex) >>)
    [] g.g = "sqrt" ->
         Node("power", <<>>, 0,
              << PolyJson(g.arg), Node("constant", <<"0", ".", "5">>, 0, <<>>) >>)

FactorJson(f) ==
  IF f.e = 1 THEN GenJson(f.g)
  ELSE Node("power", <<>>, 0, << GenJson(f.g), Node("constant", <<>>, f.e, <<>>) >>)

TermJson(t) ==
  IF t.m = {} THEN Node("constant", <<>>, t.c, <<>>)
  ELSE IF t.c = 1 /\ Cardinality(t.m) = 1 THEN FactorJson(CHOOSE f \in t.m : TRUE)
  ELSE Node("product", <<>>, 0,
            (IF t.c = 1 THEN <<>> ELSE << Node("constant", <<>>, t.c, <<>>) >>)
            \o SetToSeq({FactorJson(f) : f \in t.m}))

PolyJson(p) ==
  IF p = {} THEN Node("constant", <<>>, 0, <<>>)
  ELSE IF Cardinality(p) = 1 THEN TermJson(CHOOSE t \in p : TRUE)
  ELSE Node("sum", <<>>, 0, SetToSeq({TermJson(t) : t \in p}))

BoolText(b) == IF b THEN <<"T", "r", "u", "e">> ELSE <<"F", "a", "l", "s", "e">>

ExprToJson(v) ==
  CASE v.k = "expr" -> PolyJson(v.p)
    [] v.k = "rel" ->
         Node("relational", RelChars(v.op), 0, << PolyJson(v.p), PolyJson(v.r) >>)
    [] v.k = "bool" /\ v.op = "==" -> Node("constant", BoolText(v.b), 0, <<>>)
    [] v.k = "bool" /\ v.op # "==" ->
         Node("function_call", <<"B", "o", "o", "l", "e", "a", "n">> \o BoolText(v.b),
              0, <<>>)
    [] v.k = "pyset" -> Node("constant", <<"{", "}">>, 0, <<>>)

\* The names of the "variable" nodes of a JSON tree.
RECURSIVE NodeVars(_)
NodeVars(n) ==
  (IF n.type = "variable" THEN {n.name} ELSE {})
  \cup UNION {NodeVars(n.args[k]) : k \in 1..Len(n.args)}

(***************************************************************************)
(* _collect_variables and sorted()                                         *)
(***************************************************************************)

CollectVariables(v) == FreeSyms(v)

\* The order of Python strings: by code point, a proper prefix first.
RECURSIVE TextLess(_, _)
TextLess(a, b) ==
  IF b = <<>> THEN FALSE
  ELSE IF a = <<>> THEN TRUE
  ELSE IF Head(a) = Head(b) THEN TextLess(Tail(a), Tail(b))
  ELSE Ord(Head(a)) < Ord(Head(b))

RECURSIVE Sorted(_)
Sorted(S) ==
  IF S = {} THEN <<>>
  ELSE LET a == CHOOSE b \in S : \A c \in S \ {b} : TextLess(b, c)
       IN  << a >> \o Sorted(S \ {a})

(***************************************************************************)
(* _classify_equation                                                      *)
(***************************************************************************)

\* The degree of the zero polynomial (SymPy's -oo), below every degree.
NegInf == -1

\* expr.as_poly(*syms): a Poly when every generator of expr that holds a
\* symbol is a Symbol to a positive power; what holds no symbol is a
\* coefficient.  None otherwise.
IsPolynomial(p) ==
  \A t \in p : \A f \in t.m :
     FreeSymsP(GenPower(f.g, 1)) # {} => (f.g.g = "sym" /\ f.e >= 1)

\* Poly.degree(): the degree in the first generator, gen0.
FirstGenDegree(p, gen0) ==
  IF p = {} THEN NegInf ELSE SetMax({ExpOf(t.m, SymGen(gen0)) : t \in p})

IsSingleFactor(p) ==
  IsSingleTerm(p) /\ TheTerm(p).c = 1 /\ Cardinality(TheTerm(p).m) = 1

TheFactor(p) == CHOOSE f \in TheTerm(p).m : TRUE

\* isinstance(lhs, Pow)
IsPow(p) ==
  IsSingleFactor(p) /\ (TheFactor(p).e # 1 \/ TheFactor(p).g.g \in {"pow", "sqrt"})

\* isinstance(lhs, Mul)
IsMul(p) == IsSingleTerm(p) /\ TheTerm(p).m # {} /\ ~ IsSingleFactor(p)

\* lhs.func.__name__ == name, for an applied function.
IsCall(p, name) ==
  IsBareGen(p) /\ TheGen(p).g = "fn" /\ TheGen(p).name = name

\* Expr.is_number: no Symbol and no undefined function inside.
RECURSIVE IsNumber(_)
IsNumber(p) ==
  \A t \in p : \A f \in t.m :
     CASE f.g.g = "sym" -> FALSE
       [] f.g.g = "fn" -> f.g.name \notin {<<"f">>, <<"F">>} /\ IsNumber(f.g.arg)
       [] OTHER -> IsNumber(f.g.arg) /\ IsNumber(f.g.ex)

\* den.has(*syms) and den != 1 for num, den = expr.as_numer_denom().
DenominatorHasSymbol(p) ==
  \E t \in p : \E f \in t.m : f.e < 0 /\ FreeSymsP(GenPower(f.g, 1)) # {}

Tag(t) == [st |-> "ok", tag |-> t]

Raised == [st |-> "raise", tag |-> ""]

\* Lines 217-230: the inequality branch.  lhs - rhs raises for an operand
\* that is no Expr, inside the try.
ClassifyInequality(lhs, rhs, variables, gen0) ==
  IF lhs.k # "expr" \/ rhs.k # "expr" THEN Tag("inequality")
  ELSE LET expr == PSub(lhs.p, rhs.p)
       IN  IF variables # {} /\ IsPolynomial(expr)
           THEN IF expr # {} /\ FirstGenDegree(expr, gen0) <= 1
                THEN Tag("inequality_linear")
                ELSE IF expr # {} THEN Tag("inequality_polynomial")
                ELSE Tag("inequality")
           ELSE Tag("inequality")

\* Lines 250-299: the rules after the degree analysis has failed.
ClassifyShape(lhs, rhs, expr, syms, gen0) ==
  IF IsPow(lhs) /\ TheFactor(lhs).g.g = "pow" /\ IsConst(TheFactor(lhs).g.arg)
     /\ FreeSymsP(TheFactor(lhs).g.ex) # {}
  THEN "exponential"
  ELSE IF IsCall(lhs, <<"l", "o", "g">>) THEN "logarithmic"
  ELSE IF IsMul(lhs) /\ \E f \in TheTerm(lhs).m :
            f.e = 1 /\ f.g.g = "fn" /\ f.g.name = <<"l", "o", "g">>
  THEN "logarithmic"
  ELSE IF IsPow(lhs) /\ TheFactor(lhs).g.g = "sqrt" THEN "radical"
  ELSE IF IsPow(lhs) /\ TheFactor(lhs).g.g \in {"sym", "fn"} THEN "power"
  ELSE IF DenominatorHasSymbol(expr) THEN "rational"
  ELSE IF IsCall(lhs, <<"A", "b", "s">>) THEN "absolute"
  ELSE IF Cardinality(syms) >= 2 /\ IsPolynomial(expr)
          /\ FirstGenDegree(expr, gen0) <= 1
  THEN "parametric"
  ELSE IF IsCall(lhs, <<"f">>) THEN "functional"
  ELSE IF ~ IsNumber(lhs) /\ ~ IsNumber(rhs) THEN "identity"
  ELSE "other"

\* A wrong equality branch: without the test for an empty variable set.
ClassifyEqualityNoConstant(lhs, rhs, variables, gen0) ==
  IF lhs.k # "expr" \/ rhs.k # "expr" THEN Raised
  ELSE LET syms == FreeSyms(lhs) \cup FreeSyms(rhs)
           expr == PSub(lhs.p, rhs.p)
       IN  IF syms # {} /\ IsPolynomial(expr)
           THEN IF FirstGenDegree(expr, gen0) <= 1 THEN Tag("linear")
                ELSE IF FirstGenDegree(expr, gen0) = 2 THEN Tag("quadratic")
                ELSE Tag("polynomial")
           ELSE Tag(ClassifyShape(lhs.p, rhs.p, expr, syms, gen0))

\* A wrong equality branch: the degree rules decide only with one symbol, and
\* with more the rules after them are tried.
ClassifyEqualityOneSymbol(lhs, rhs, variables, gen0) ==
  IF variables = {} THEN Tag("constant")
  ELSE IF lhs.k # "expr" \/ rhs.k # "expr" THEN Raised
  ELSE LET syms == FreeSyms(lhs) \cup FreeSyms(rhs)
           expr == PSub(lhs.p, rhs.p)
       IN  IF Cardinality(syms) = 1 /\ IsPolynomial(expr)
           THEN IF FirstGenDegree(expr, gen0) <= 1 THEN Tag("linear")
                ELSE IF FirstGenDegree(expr, gen0) = 2 THEN Tag("quadratic")
                ELSE Tag("polynomial")
           ELSE Tag(ClassifyShape(lhs.p, rhs.p, expr, syms, gen0))

\* Lines 232-299: the equality branch.  lhs - rhs (line 236) raises for an
\* operand that is no Expr, outside any try.
ClassifyEquality(lhs, rhs, variables, gen0) ==
  IF variables = {} THEN Tag("constant")
  ELSE IF lhs.k # "expr" \/ rhs.k # "expr" THEN Raised
  ELSE LET syms == FreeSyms(lhs) \cup FreeSyms(rhs)
           expr == PSub(lhs.p, rhs.p)
       IN  IF syms # {} /\ IsPolynomial(expr)
           THEN IF FirstGenDegree(expr, gen0) <= 1 THEN Tag("linear")
                ELSE IF FirstGenDegree(expr, gen0) = 2 THEN Tag("quadratic")
                ELSE Tag("polynomial")
           ELSE Tag(ClassifyShape(lhs.p, rhs.p, expr, syms, gen0))

ClassifyEquation(lhs, rhs, relation, variables, gen0) ==
  IF relation # "=" THEN ClassifyInequality(lhs, rhs, variables, gen0)
  ELSE ClassifyEquality(lhs, rhs, variables, gen0)

(***************************************************************************)
(* _parse_piecewise                                                        *)
(***************************************************************************)

\* re.match(r"f\s*\(\s*x\s*\)\s*=\s*\{\s*(.+)\s*\}\s*$", s, re.IGNORECASE) on
\* the stripped line: the position of the "{", or 0 when the line does not
\* match.  IGNORECASE makes "F" and "X" match too.
RECURSIVE MatchTokens(_, _, _)
MatchTokens(s, p, want) ==
  IF want = <<>> THEN p - 1
  ELSE LET q == SkipSpaces(s, p)
       IN  IF q <= Len(s) /\ s[q] \in Head(want)
           THEN MatchTokens(s, q + 1, Tail(want))
           ELSE 0

\* What follows the function name, blanks allowed before each.
PiecewiseHead == << {"("}, {"x", "X"}, {")"}, {"="}, {"{"} >>

\* group(1): what stands between the "{" and the closing "}" that ends the
\* line; the match needs at least one character there.
PiecewiseMatch(s) ==
  LET b == IF Len(s) >= 1 /\ s[1] \in {"f", "F"}
           THEN MatchTokens(s, 2, PiecewiseHead) ELSE 0
  IN  IF b # 0 /\ Len(s) >= b + 2 /\ s[Len(s)] = "}"
      THEN [ok |-> TRUE, content |-> SubSeq(s, b + 1, Len(s) - 1)]
      ELSE [ok |-> FALSE, content |-> <<>>]

\* Lines 82-93: the branch of the two parsed halves, or the fallback when
\* sympify raises for either.
BranchNode(expr_str, cond_str, expr, cond) ==
  IF expr.st = "ok" /\ cond.st = "ok"
  THEN Node("branch", <<>>, 0, << ExprToJson(cond.v), ExprToJson(expr.v) >>)
  ELSE Node("branch", <<>>, 0,
            << Node("constant", cond_str, 0, <<>>),
               Node("constant", expr_str, 0, <<>>) >>)

\* Lines 80-81: the two halves, normalized.
BranchOf(expr_str, cond_str) ==
  BranchNode(expr_str, cond_str, Sympify(expr_str), Sympify(cond_str))

\* Lines 77-93: one branch "expr , condition", split at the last comma.
Branch(part) ==
  BranchOf(NormalizeLine(SubSeq(part, 1, RFind(<<",">>, part) - 1)),
           NormalizeLine(SubSeq(part, RFind(<<",">>, part) + 1, Len(part))))

\* A wrong loop: a branch that does not parse is dropped.
RECURSIVE BranchesDropUnparsed(_)
BranchesDropUnparsed(parts) ==
  IF parts = <<>> THEN <<>>
  ELSE LET part == Strip(Head(parts))
       IN  IF part = <<>> \/ RFind(<<",">>, part) = 0
              \/ Branch(part).args[1].type = "constant"
           THEN BranchesDropUnparsed(Tail(parts))
           ELSE << Branch(part) >> \o BranchesDropUnparsed(Tail(parts))

\* Lines 71-93: the loop over content.split(";"); a blank part and a part
\* without a comma are skipped.
RECURSIVE Branches(_)
Branches(parts) ==
  IF parts = <<>> THEN <<>>
  ELSE LET part == Strip(Head(parts))
       IN  IF part = <<>> \/ RFind(<<",">>, part) = 0
           THEN Branches(Tail(parts))
           ELSE << Branch(part) >> \o Branches(Tail(parts))

NoEquation ==
  [id |-> 0, raw |-> <<>>, variables |-> <<>>, equation_type |-> "", relation |-> "",
   lhs |-> Node("", <<>>, 0, <<>>), rhs |-> Node("", <<>>, 0, <<>>)]

NoneResult == [st |-> "none", eq |-> NoEquation]

\* A wrong handler: a record even when no branch was recorded.
PiecewiseRecordNoBranchCheck(raw, branches) ==
  [st |-> "ok",
   eq |-> [id |-> 0, raw |-> raw, variables |-> << <<"x">> >>,
           equation_type |-> "piecewise", relation |-> "=",
           lhs |-> Node("function_def", <<"f">>, 0,
                        << Node("parameter", <<"x">>, 0, <<>>) >>),
           rhs |-> Node("piecewise", <<>>, 0, branches)]]

\* Lines 94-104: None when no branch was recorded, the record otherwise.
PiecewiseRecord(raw, branches) ==
  IF branches = <<>> THEN NoneResult
  ELSE [st |-> "ok",
        eq |-> [id |-> 0, raw |-> raw, variables |-> << <<"x">> >>,
                equation_type |-> "piecewise", relation |-> "=",
                lhs |-> Node("function_def", <<"f">>, 0,
                             << Node("parameter", <<"x">>, 0, <<>>) >>),
                rhs |-> Node("piecewise", <<>>, 0, branches)]]

\* Lines 67-72: None when the pattern does not match; the branches of the
\* stripped content otherwise.
PiecewiseOfMatch(raw, m) ==
  IF ~ m.ok THEN NoneResult
  ELSE PiecewiseRecord(raw, Branches(SplitAll(Strip(m.content), ";")))

ParsePiecewise(line) == PiecewiseOfMatch(Strip(line), PiecewiseMatch(Strip(line)))

(***************************************************************************)
(* parse_equation                                                          *)
(***************************************************************************)

\* The Symbols that can come first when the set syms is unpacked into
\* as_poly(*syms): the order of a Python set of Symbols depends on their
\* hashes, which change from run to run.
FirstGens(syms) == IF syms = {} THEN {<<>>} ELSE syms

\* Lines 329-339: the record, unless _classify_equation raised.
StandardRecord(raw, equation_id, relation, lhs, rhs, variables, c) ==
  IF c.st = "raise" THEN [st |-> "raise", eq |-> NoEquation]
  ELSE [st |-> "ok",
        eq |-> [id |-> equation_id, raw |-> raw, variables |-> Sorted(variables),
                equation_type |-> c.tag, relation |-> relation,
                lhs |-> ExprToJson(lhs), rhs |-> ExprToJson(rhs)]]

\* Line 329: the call of _classify_equation, for each first generator.
StandardRecords(raw, equation_id, relation, lhs, rhs, variables) ==
  {StandardRecord(raw, equation_id, relation, lhs, rhs, variables,
                  ClassifyEquation(lhs, rhs, relation, variables, gen0)) :
     gen0 \in FirstGens(variables)}

\* Lines 325-328: None when sympify raised for either side.
StandardParsed(raw, equation_id, relation, lhs, rhs) ==
  IF lhs.st # "ok" \/ rhs.st # "ok" THEN {NoneResult}
  ELSE StandardRecords(raw, equation_id, relation, lhs.v, rhs.v,
                       CollectVariables(lhs.v) \cup CollectVariables(rhs.v))

\* Lines 319-324: None without a relation or with an empty side.
StandardSides(raw, equation_id, d) ==
  IF d.relation = "" \/ d.lhs = <<>> \/ d.rhs = <<>> THEN {NoneResult}
  ELSE StandardParsed(raw, equation_id, d.relation, Sympify(d.lhs), Sympify(d.rhs))

\* A wrong pipeline: no check of the relation, of the sides or of what
\* sympify did; a side sympify rejects counts as 0.
ParseStandardNoGuards(raw, equation_id) ==
  LET d == DetectRelation(NormalizeLine(raw))
      lhs == Sympify(d.lhs)
      rhs == Sympify(d.rhs)
  IN  StandardRecords(raw, equation_id, d.relation, lhs.v, rhs.v,
                      CollectVariables(lhs.v) \cup CollectVariables(rhs.v))

\* Lines 317-339: the standard pipeline.
ParseStandard(raw, equation_id) ==
  StandardSides(raw, equation_id, DetectRelation(NormalizeLine(raw)))

\* Lines 312-315: the piecewise record with its id, or the standard pipeline.
AfterPiecewise(raw, equation_id, pw) ==
  IF pw.st = "ok" THEN {[st |-> "ok", eq |-> [pw.eq EXCEPT !.id = equation_id]]}
  ELSE ParseStandard(raw, equation_id)

\* parse_equation(line, equation_id): what the call can return or do, as
\* [st, eq]: st is "ok" (the record eq), "none" (None) or "raise".
ParseEquation(line, equation_id) ==
  IF Strip(line) = <<>> THEN {NoneResult}
  ELSE AfterPiecewise(Strip(line), equation_id, ParsePiecewise(Strip(line)))

(***************************************************************************)
(* The input lines.                                                        *)
(***************************************************************************)

\* Every text of a given length over a set of characters.
RECURSIVE TextsOfLen(_, _)
TextsOfLen(chars, n) ==
  IF n = 0 THEN {<<>>}
  ELSE {<<c>> \o t : c \in chars, t \in TextsOfLen(chars, n - 1)}

MaxShortLen == 4

ShortChars == {"x", "2", " ", "<", ">", "="}

\* Every line of at most MaxShortLen characters over ShortChars.
ShortLines == UNION {TextsOfLen(ShortChars, n) : n \in 0..MaxShortLen}

\* Operand texts: numbers, variables, sums, products, powers in the three
\* notations, quotients, bars, function calls, a comparison, and texts
\* sympify rejects.
OperandTexts ==
  { <<"2">>, <<"0">>, <<"x">>, <<"y">>,
    <<"x", " ", "+", " ", "1">>,
    <<"3", "x", " ", "+", " ", "5">>,
    <<"x", "+", "y">>,
    <<"x", "*", "y">>,
    <<"x", "^", "2">>,
    <<"x", "sup2", " ", "-", " ", "4">>,
    <<"x", "sup3">>,
    <<"x", "^", "2", "+", "y">>,
    <<"2", "^", "x">>,
    <<"1", "/", "x">>,
    <<"l", "o", "g", "(", "x", ")">>,
    <<"2", "l", "o", "g", "(", "x", ")">>,
    <<"|", "x", " ", "-", " ", "3", "|">>,
    <<"|", "x", "|">>,
    <<"f", "(", "x", ")">>,
    <<"f", "(", "2", ")">>,
    <<"s", "q", "r", "t", "(", "x", ")">>,
    <<"x", "<", "y">>,
    <<"x", " ", "+">>,
    <<>> }

RelationTexts ==
  { <<"=">>, <<"<">>, <<">">>, <<"<", "=">>, <<">", "=">>, <<"le">>, <<"ge">>, <<>> }

StandardLines ==
  {l \o <<" ">> \o rel \o <<" ">> \o r :
     l \in OperandTexts, rel \in RelationTexts, r \in OperandTexts}

MaxBranches == 2

\* What stands before the branches of a piecewise line, and near misses.
HeadTexts ==
  { <<"f", "(", "x", ")", " ", "=", " ", "{">>,
    <<"F", " ", "(", " ", "X", " ", ")", "=", "{">>,
    <<"f", "(", "y", ")", " ", "=", " ", "{">>,
    <<"2", "f", "(", "x", ")", " ", "=", " ", "{">> }

\* Branch texts: well formed, with another variable, without a comma, blank,
\* and with an expression or a condition sympify rejects.
BranchTexts ==
  { <<" ", "9", "x", " ", "+", " ", "1", "0", " ", ",", " ", "x", " ", ">", "=", " ", "0", " ">>,
    <<" ", "y", " ", ",", " ", "x", " ", "<", " ", "0", " ">>,
    <<" ", "5", " ">>,
    <<" ">>,
    <<" ", "x", " ", "+", " ", ",", " ", "x", " ", ">", " ", "0", " ">>,
    <<" ", "x", " ", ",", " ", "x", " ", "=", " ", "0", " ">> }

RECURSIVE BodiesOfLen(_)
BodiesOfLen(n) ==
  IF n = 1 THEN BranchTexts
  ELSE {b \o <<";">> \o rest : b \in BranchTexts, rest \in BodiesOfLen(n - 1)}

PiecewiseLines ==
  {h \o body \o close :
     h \in HeadTexts,
     body \in UNION {BodiesOfLen(n) : n \in 1..MaxBranches},
     close \in {<<"}">>, <<>>}}

\* The lines one call of parse_equation is checked on.
Lines == ShortLines \cup StandardLines \cup PiecewiseLines

MaxLines == 3

\* The lines of the files the batch loop is checked on: a linear equation,
\* an inequality, a blank line, a line without a relation, a line sympify
\* rejects, a piecewise line and a line whose left side is a comparison.
BatchLines ==
  { <<"3", "x", " ", "+", " ", "5", " ", "=", " ", "1", "1">>,
    <<"x", " ", ">", "=", " ", "2">>,
    <<" ">>,
    <<"x", " ", "+", " ", "1">>,
    <<"x", " ", "+", " ", "=", " ", "2">>,
    <<"f", "(", "x", ")", " ", "=", " ", "{", " ", "x", " ", ",", " ", "x", " ", ">", " ", "0", " ", "}">>,
    <<"x", " ", "<", " ", "y", " ", "=", " ", "2">> }

Files == UNION {[1..n -> BatchLines] : n \in 0..MaxLines}

(***************************************************************************)
(* parse_equations_file: the loop over the lines of the file               *)
(***************************************************************************)

NoResult == [count |-> 0, equations |-> <<>>]

NoCall == [line |-> <<>>, id |-> 0, st |-> "", eq |-> NoEquation]

Init ==
  /\ lines \in Files
  /\ i = 0
  /\ equations = <<>>
  /\ pc = "loop"
  /\ result = NoResult
  /\ last = NoCall
  /\ norm_line = <<>>

\* A file of one line, any of Lines.
InitLine ==
  /\ lines \in {<<l>> : l \in Lines}
  /\ i = 0
  /\ equations = <<>>
  /\ pc = "loop"
  /\ result = NoResult
  /\ last = NoCall
  /\ norm_line = <<>>

Called(out) == [line |-> lines[i + 1], id |-> i + 1, st |-> out.st, eq |-> out.eq]

\* Line 354: the call of parse_equation for the next line, numbered from 1.
Call ==
  IF pc = "loop" /\ i < Len(lines) THEN ParseEquation(lines[i + 1], i + 1) ELSE {}

\* Lines 353-356: parse_equation returns a record, which is appended.
ParsedLine ==
  \E out \in Call :
    /\ out.st = "ok"
    /\ equations' = Append(equations, out.eq)
    /\ last' = Called(out)
    /\ i' = i + 1
    /\ UNCHANGED <<lines, pc, result, norm_line>>

\* Lines 353-355: parse_equation returns None and the line is skipped.
SkippedLine ==
  \E out \in Call :
    /\ out.st = "none"
    /\ last' = Called(out)
    /\ i' = i + 1
    /\ UNCHANGED <<lines, equations, pc, result, norm_line>>

\* Line 354: parse_equation raises; nothing catches it and the call of
\* parse_equations_file ends without a result.
RaisedLine ==
  \E out \in Call :
    /\ out.st = "raise"
    /\ last' = Called(out)
    /\ pc' = "raised"
    /\ UNCHANGED <<lines, i, equations, result, norm_line>>

\* Lines 358-371: the file is read; the result is built, written and returned.
Finish ==
  /\ pc = "loop"
  /\ i = Len(lines)
  /\ result' = [count |-> Len(equations), equations |-> equations]
  /\ pc' = "done"
  /\ UNCHANGED <<lines, i, equations, last, norm_line>>

Next == ParsedLine \/ SkippedLine \/ RaisedLine \/ Finish

Spec == Init /\ [][Next]_vars

SpecLine == InitLine /\ [][Next]_vars

(***************************************************************************)
(* The loop of lines 50-55 of _normalize_line, one iteration at a time.    *)
(* norm_line is the local variable line of _normalize_line; pc is "while"  *)
(* at the test of the loop and "return" once line 57 has returned.         *)
(***************************************************************************)

MaxBarLen == 5

BarChars == {"|", "x", " "}

\* Every line of at most MaxBarLen characters over BarChars: bars that pair,
\* an odd number of bars, bars next to each other, blanks between bars.
BarLines == UNION {TextsOfLen(BarChars, n) : n \in 0..MaxBarLen}

\* The lines the loop is entered with: those of BarLines that are not blank,
\* as lines 32-47 leave them.
LoopLines == {Rewritten(l) : l \in {b \in BarLines : Strip(b) # <<>>}}

\* No batch is running; the normalizer stands at line 50.
InitNormalize ==
  /\ lines = <<>>
  /\ i = 0
  /\ equations = <<>>
  /\ pc = "while"
  /\ result = NoResult
  /\ last = NoCall
  /\ norm_line \in LoopLines

\* Lines 50-55: the line holds a bar and the pattern matches; the match is
\* replaced and the test of the loop comes next.
AbsIteration ==
  /\ pc = "while"
  /\ Contains(<<"|">>, norm_line)
  /\ AbsMatchStart(norm_line) # 0
  /\ norm_line' = AbsWrap(norm_line, AbsMatchStart(norm_line))
  /\ UNCHANGED <<lines, i, equations, pc, result, last>>

\* Lines 50-53 and 57: the line holds a bar and the pattern does not match;
\* break leaves the loop and the line is returned as it is.
AbsBreak ==
  /\ pc = "while"
  /\ Contains(<<"|">>, norm_line)
  /\ AbsMatchStart(norm_line) = 0
  /\ pc' = "return"
  /\ UNCHANGED <<lines, i, equations, result, last, norm_line>>

\* Lines 50 and 57: the line holds no bar; the loop ends and the line is
\* returned.
AbsDone ==
  /\ pc = "while"
  /\ ~ Contains(<<"|">>, norm_line)
  /\ pc' = "return"
  /\ UNCHANGED <<lines, i, equations, result, last, norm_line>>

NextNormalize == AbsIteration \/ AbsBreak \/ AbsDone

\* The loop runs on its own: a step that can be taken is taken.
SpecNormalize ==
  InitNormalize /\ [][NextNormalize]_vars /\ WF_vars(NextNormalize)

(***************************************************************************)
(* The properties of the specification.                                    *)
(*                                                                         *)
(* last holds the most recent call of parse_equation: its line, its id and *)
(* what it returned.  The definitions below read the line of that call.    *)
(***************************************************************************)

\* The line of the last call, trimmed.
LastRaw == Strip(last.line)

\* The normalized line the relation splitter was given.
LastNormalized == NormalizeLine(LastRaw)

\* What the relation splitter made of it.
LastDetected == DetectRelation(LastNormalized)

\* The two operands as sympify returns them.
LastLhs == Sympify(LastDetected.lhs)

LastRhs == Sympify(LastDetected.rhs)

\* The five relation operators.
Relations == {">=", "<=", "=", ">", "<"}

\* The place of an operator in the priority order >=, <=, =, >, <.
PriorityRank(rel) ==
  CASE rel = ">=" -> 1
    [] rel = "<=" -> 2
    [] rel = "="  -> 3
    [] rel = ">"  -> 4
    [] rel = "<"  -> 5

\* The last call returned a record tagged piecewise.
IsPiecewiseRecord == last.st = "ok" /\ last.eq.equation_type = "piecewise"

(***************************************************************************)
(* C1: relation detection picks the operator of highest priority, in the   *)
(* order >=, <=, =, >, <, among those that occur in the normalized string, *)
(* and splits at the leftmost occurrence of that operator into trimmed lhs *)
(* and rhs; an operator of lower priority never decides the split, even    *)
(* further left.  "x >= 2" yields (">=", "x", "2").                        *)
(***************************************************************************)
C1_RelationPriority ==
  LET n == LastNormalized
      d == LastDetected
      here == {r \in Relations : Contains(RelChars(r), n)}
  IN  /\ here = {} => d.relation = ""
      /\ here # {} =>
           /\ d.relation \in here
           /\ \A r \in here : PriorityRank(d.relation) <= PriorityRank(r)
           /\ \E p \in 1..Len(n) :
                /\ OccursAt(RelChars(d.relation), n, p)
                /\ \A q \in 1..(p - 1) : ~ OccursAt(RelChars(d.relation), n, q)
                /\ d.lhs = Strip(SubSeq(n, 1, p - 1))
                /\ d.rhs = Strip(SubSeq(n, p + Len(RelChars(d.relation)), Len(n)))
      /\ DetectRelation(<<"x", " ", ">", "=", " ", "2">>)
           = [relation |-> ">=", lhs |-> <<"x">>, rhs |-> <<"2">>]

\* A call whose line is split on ">=" although an operator of lower
\* priority occurs further left.
C1_Witness ==
  /\ last.id = 1
  /\ LastDetected.relation = ">="
  /\ \E r \in {"=", ">", "<"} :
       /\ Contains(RelChars(r), LastNormalized)
       /\ Find(RelChars(r), LastNormalized) < Find(<<">", "=">>, LastNormalized)

(***************************************************************************)
(* C2: for any sequence of lines the batch loop outputs exactly the        *)
(* records of the lines that did not fail, in input order, each with the   *)
(* 1-based position of its line as id (ids strictly increasing), and count *)
(* is the number of records.                                               *)
(***************************************************************************)
C2_BatchOutput ==
  /\ pc # "raised"
  /\ \A k \in 1..Len(equations) :
       /\ equations[k].id \in 1..i
       /\ equations[k].raw = Strip(lines[equations[k].id])
       /\ k > 1 => equations[k - 1].id < equations[k].id
  /\ {equations[k].id : k \in 1..Len(equations)}
       = {n \in 1..i : \E o \in ParseEquation(lines[n], n) : o.st = "ok"}
  /\ pc = "done" =>
       /\ i = Len(lines)
       /\ result.equations = equations
       /\ result.count = Len(result.equations)

(***************************************************************************)
(* C3: parse_equation ends by returning a record or None and never raises  *)
(* to its caller; in a batch a failing line is only left out and the later *)
(* lines are still processed.                                              *)
(***************************************************************************)
C3_NeverRaises == last.st \in {"", "ok", "none"} /\ pc \in {"loop", "done"}

\* The sum of the exponents of the Symbols of a monomial.
RECURSIVE MonomialDegree(_)
MonomialDegree(m) ==
  IF m = {} THEN 0
  ELSE LET f == CHOOSE g \in m : TRUE
       IN  (IF f.g.g = "sym" THEN f.e ELSE 0) + MonomialDegree(m \ {f})

\* The degree of a polynomial: the largest degree of its monomials.
TotalDegree(p) ==
  IF p = {} THEN NegInf ELSE SetMax({MonomialDegree(t.m) : t \in p})

\* The degree analysis of lhs - rhs succeeds: both operands are expressions,
\* there is a variable and the difference is a polynomial in the variables.
DegreeAnalysisSucceeds ==
  /\ LastLhs.v.k = "expr"
  /\ LastRhs.v.k = "expr"
  /\ last.eq.variables # <<>>
  /\ IsPolynomial(PSub(LastLhs.v.p, LastRhs.v.p))

LastDegree == TotalDegree(PSub(LastLhs.v.p, LastRhs.v.p))

(***************************************************************************)
(* C4: a non-piecewise line with relation "=", a variable and a successful *)
(* degree analysis of lhs - rhs with degree d is tagged linear when        *)
(* d <= 1, quadratic when d = 2 and polynomial when d > 2, whatever the    *)
(* shape of lhs.                                                           *)
(***************************************************************************)
C4_DegreeRules ==
  (/\ last.st = "ok"
   /\ ~ IsPiecewiseRecord
   /\ last.eq.relation = "="
   /\ DegreeAnalysisSucceeds)
  => last.eq.equation_type =
       (IF LastDegree <= 1 THEN "linear"
        ELSE IF LastDegree = 2 THEN "quadratic" ELSE "polynomial")

(***************************************************************************)
(* C5: every record with relation "=" and an empty variables list has      *)
(* equation_type "constant", and no record with a variable or with another *)
(* relation has it.                                                        *)
(***************************************************************************)
C5_ConstantIffNoVariables ==
  \A k \in 1..Len(equations) :
    equations[k].equation_type = "constant"
      <=> (equations[k].relation = "=" /\ equations[k].variables = <<>>)

\* A record tagged constant has been produced.
C5_Witness ==
  \E k \in 1..Len(equations) :
    /\ equations[k].equation_type = "constant"
    /\ equations[k].relation = "="
    /\ equations[k].variables = <<>>

InequalityTags == {"inequality_linear", "inequality_polynomial", "inequality"}

(***************************************************************************)
(* C6: a non-piecewise line whose relation is not "=" is tagged by the     *)
(* degree analysis of lhs - rhs alone: inequality_linear when it succeeds  *)
(* with degree <= 1, inequality_polynomial when it succeeds with a larger  *)
(* degree, inequality when it fails; a line with relation "=" never gets   *)
(* one of these three tags.                                                *)
(***************************************************************************)
C6_InequalityTags ==
  (last.st = "ok" /\ ~ IsPiecewiseRecord) =>
    IF last.eq.relation = "="
    THEN last.eq.equation_type \notin InequalityTags
    ELSE last.eq.equation_type =
           (IF ~ DegreeAnalysisSucceeds THEN "inequality"
            ELSE IF LastDegree <= 1 THEN "inequality_linear"
            ELSE "inequality_polynomial")

NotBlank(c) == c # " "

\* The position of the "{" of a trimmed text  name ( var ) = { ... }  with
\* blanks allowed between the tokens and at least one character between the
\* "{" and the "}" that ends the text; 0 for any other text.
GrammarBrace(raw, names, params) ==
  LET heads == {<<n, "(", v, ")", "=", "{">> : n \in names, v \in params}
      bs == {b \in 1..Len(raw) :
               /\ raw[b] = "{"
               /\ SelectSeq(SubSeq(raw, 1, b), NotBlank) \in heads}
  IN  IF bs # {} /\ raw[Len(raw)] = "}" /\ Len(raw) >= SetMin(bs) + 2
      THEN SetMin(bs) ELSE 0

\* The parts of the braces' content, split on ";".
ContentParts(raw) == SplitAll(SubSeq(raw, Find(<<"{">>, raw) + 1, Len(raw) - 1), ";")

\* A part the handler records: not blank, with a comma.
IsBranchText(part) == Strip(part) # <<>> /\ Contains(<<",">>, part)

\* The lines the piecewise handler answers: f or F, x or X, and a part of
\* the content that is recorded.
Recognized(raw) ==
  /\ GrammarBrace(raw, {"f", "F"}, {"x", "X"}) # 0
  /\ \E k \in 1..Len(ContentParts(raw)) : IsBranchText(ContentParts(raw)[k])

(***************************************************************************)
(* C7, as the specification states it: a line gets a record tagged         *)
(* piecewise when, trimmed, it matches f(x) = { ... } with the function    *)
(* name in either case and the literal variable x, and every other line is *)
(* handled by the standard pipeline and never tagged piecewise.            *)
(***************************************************************************)
C7_PiecewiseIffGrammar ==
  last.id # 0 => (GrammarBrace(LastRaw, {"f", "F"}, {"x"}) # 0 <=> IsPiecewiseRecord)

(***************************************************************************)
(* C7, amended: a line gets a record tagged piecewise, with relation "="   *)
(* and its trimmed text as raw, exactly when, trimmed, it matches          *)
(* f(x) = { ... } with f and x in either case and some part of the content *)
(* between two ";" is not blank and holds a comma; every other line is     *)
(* handled by the standard pipeline and never tagged piecewise.            *)
(***************************************************************************)
C7_PiecewiseIffRecognized ==
  last.id # 0 =>
    /\ Recognized(LastRaw) <=> IsPiecewiseRecord
    /\ IsPiecewiseRecord =>
         /\ last.eq.relation = "="
         /\ last.eq.raw = LastRaw
         /\ last.eq.rhs.type = "piecewise"
    /\ ~ Recognized(LastRaw) =>
         [st |-> last.st, eq |-> last.eq] \in ParseStandard(LastRaw, last.id)

\* A line with F and X that gets a piecewise record although one part of its
\* content holds no comma.
C7_Witness ==
  /\ IsPiecewiseRecord
  /\ LastRaw[1] = "F"
  /\ \E k \in 1..Len(ContentParts(LastRaw)) : ~ IsBranchText(ContentParts(LastRaw)[k])

\* The two halves of a recorded part, normalized.
ExprText(part) == NormalizeLine(SubSeq(Strip(part), 1, RFind(<<",">>, Strip(part)) - 1))

CondText(part) ==
  NormalizeLine(SubSeq(Strip(part), RFind(<<",">>, Strip(part)) + 1, Len(Strip(part))))

\* sympify rejects a half of the part.
Unparsable(part) ==
  Sympify(ExprText(part)).st # "ok" \/ Sympify(CondText(part)).st # "ok"

\* The opaque fallback: two constants holding the texts of the halves.
Fallback(part) ==
  Node("branch", <<>>, 0,
       << Node("constant", CondText(part), 0, <<>>),
          Node("constant", ExprText(part), 0, <<>>) >>)

(***************************************************************************)
(* C8, as the specification states it: the number of branches recorded is  *)
(* the number of parts the braces' content splits into on ";".             *)
(***************************************************************************)
C8_BranchPerPart ==
  \A k \in 1..Len(equations) :
    equations[k].equation_type = "piecewise" =>
      Len(equations[k].rhs.args) = Len(ContentParts(equations[k].raw))

(***************************************************************************)
(* C8, amended: the branches recorded are, in order, those of the parts    *)
(* that are not blank and hold a comma; a part whose expression or         *)
(* condition sympify rejects is recorded with the Constant fallback and    *)
(* not dropped.  A blank part and a part without a comma are left out.     *)
(***************************************************************************)
C8_BranchPerRecordedPart ==
  \A k \in 1..Len(equations) :
    equations[k].equation_type = "piecewise" =>
      LET kept == SelectSeq(ContentParts(equations[k].raw), IsBranchText)
          branches == equations[k].rhs.args
      IN  /\ Len(branches) = Len(kept)
          /\ \A j \in 1..Len(kept) :
               Unparsable(kept[j]) => branches[j] = Fallback(kept[j])

\* A piecewise record of two branches or more, one of them the fallback of
\* a part sympify rejects.
C8_Witness ==
  \E k \in 1..Len(equations) :
    /\ equations[k].equation_type = "piecewise"
    /\ Len(equations[k].rhs.args) >= 2
    /\ \E j \in 1..Len(equations[k].rhs.args) :
         LET kept == SelectSeq(ContentParts(equations[k].raw), IsBranchText)
         IN  Unparsable(kept[j]) /\ equations[k].rhs.args[j] = Fallback(kept[j])

(***************************************************************************)
(* C9: in every record, standard or piecewise, variables is sorted         *)
(* ascending, has no duplicates and holds exactly the names of the         *)
(* variables in the lhs and rhs trees (for a piecewise record: in the      *)
(* expressions and conditions of its branches).                            *)
(***************************************************************************)
C9_VariablesExact ==
  \A k \in 1..Len(equations) :
    LET vs == equations[k].variables
    IN  /\ \A j \in 1..(Len(vs) - 1) : TextLess(vs[j], vs[j + 1])
        /\ {vs[j] : j \in 1..Len(vs)}
             = NodeVars(equations[k].lhs) \cup NodeVars(equations[k].rhs)

(***************************************************************************)
(* C10: a non-piecewise line yields None whenever it is blank after        *)
(* trimming, none of the five relation operators occurs in it, or a side   *)
(* is empty after splitting and trimming; a record is only produced with   *)
(* one of the five relations and two non-empty operand texts.  The         *)
(* operators are looked for where the splitter looks: in the normalized    *)
(* line.                                                                   *)
(***************************************************************************)
C10_NoRecordConditions ==
  (last.id # 0 /\ ~ Recognized(LastRaw)) =>
    /\ (\/ LastRaw = <<>>
        \/ \A r \in Relations : ~ Contains(RelChars(r), LastNormalized)
        \/ LastDetected.lhs = <<>>
        \/ LastDetected.rhs = <<>>) => last.st = "none"
    /\ last.st = "ok" =>
         /\ last.eq.relation \in Relations
         /\ last.eq.relation = LastDetected.relation
         /\ LastDetected.lhs # <<>>
         /\ LastDetected.rhs # <<>>

\* A line that holds a relation operator and is left out for its empty side.
C10_Witness ==
  /\ last.id = 1
  /\ last.st = "none"
  /\ LastDetected.relation \in Relations
  /\ LastDetected.lhs = <<>> \/ LastDetected.rhs = <<>>

\* The number of bars of a text.
BarCount(s) == Cardinality({k \in 1..Len(s) : s[k] = "|"})

\* The pairs of bars of a text with at least one character and no bar
\* between them.
BarPairs(s) ==
  {pr \in (1..Len(s)) \X (1..Len(s)) :
     /\ s[pr[1]] = "|"
     /\ s[pr[2]] = "|"
     /\ pr[1] + 2 <= pr[2]
     /\ \A k \in (pr[1] + 1)..(pr[2] - 1) : s[k] # "|"}

\* The text with the pair pr replaced by Abs( ), around what stood between
\* the bars, trimmed.
Wrapped(s, pr) ==
  SubSeq(s, 1, pr[1] - 1) \o << "A", "b", "s", "(" >>
    \o Strip(SubSeq(s, pr[1] + 1, pr[2] - 1)) \o << ")" >>
    \o SubSeq(s, pr[2] + 1, Len(s))

\* No bar is left in the line when the normalizer has returned.
NoBarAtReturn == pc = "return" => ~ Contains(<<"|">>, norm_line)

(***************************************************************************)
(* C11, as the specification states it: the absolute-value step of the     *)
(* normalizer terminates on any line, and when it stops no "|" remains in  *)
(* the line, lines with an odd number of bars or with adjacent bars        *)
(* included.                                                               *)
(***************************************************************************)
C11_NoBarRemains == <>(pc = "return") /\ []NoBarAtReturn

(***************************************************************************)
(* C11, amended: the absolute-value step of the normalizer terminates on   *)
(* any line.  Each iteration replaces the leftmost pair of bars that has   *)
(* at least one character and no bar between them by the absolute-value    *)
(* wrapper, which takes two bars away, and the iterations stop when no     *)
(* such pair is left: the bars that remain then stand next to each other,  *)
(* and a line with an odd number of bars keeps at least one.               *)
(***************************************************************************)
C11_AbsLoopStops ==
  /\ <>(pc = "return")
  /\ [](pc = "return" => BarPairs(norm_line) = {})
  /\ [][(pc = "while" /\ pc' = "while") =>
          \E pr \in BarPairs(norm_line) :
            /\ \A other \in BarPairs(norm_line) : pr[1] <= other[1]
            /\ norm_line' = Wrapped(norm_line, pr)
            /\ BarCount(norm_line') = BarCount(norm_line) - 2]_vars
  /\ [][(pc = "while" /\ pc' = "return") => norm_line' = norm_line]_vars

\* The normalizer has returned a line in which a pair of bars was wrapped
\* and a bar is left.
C11_Witness ==
  /\ pc = "return"
  /\ Contains(<< "A", "b", "s", "(" >>, norm_line)
  /\ Contains(<<"|">>, norm_line)

\* The symbols of the two operands of the last call.
LastSyms == FreeSyms(LastLhs.v) \cup FreeSyms(LastRhs.v)

\* The last call returned a record of the standard pipeline with relation
\* "=" and both operands expressions.
LastIsEquality ==
  /\ last.st = "ok"
  /\ ~ IsPiecewiseRecord
  /\ last.eq.relation = "="
  /\ LastLhs.v.k = "expr"
  /\ LastRhs.v.k = "expr"

\* What rule 14 asks for: two symbols or more, and a degree analysis of
\* lhs - rhs that succeeds with degree <= 1 for some first generator.
ParametricTest ==
  /\ Cardinality(LastSyms) >= 2
  /\ IsPolynomial(PSub(LastLhs.v.p, LastRhs.v.p))
  /\ \E gen0 \in LastSyms :
       FirstGenDegree(PSub(LastLhs.v.p, LastRhs.v.p), gen0) <= 1

(***************************************************************************)
(* C12: the classifier comes to the parametric rule only when the degree   *)
(* analysis of lhs - rhs has failed at the degree rules, and the analysis  *)
(* tried again there is the same computation on the same expression: when  *)
(* the test of the parametric rule would pass, the degree rules have       *)
(* already given the tag.  Hence no record is tagged parametric, and every *)
(* equality with two variables or more, a successful degree analysis and   *)
(* degree <= 1 is tagged linear.                                           *)
(***************************************************************************)
C12_ParametricUnreachable ==
  /\ \A k \in 1..Len(equations) : equations[k].equation_type # "parametric"
  /\ last.st = "ok" => last.eq.equation_type # "parametric"
  /\ (LastIsEquality /\ ParametricTest) =>
       last.eq.equation_type \in {"linear", "quadratic", "polynomial"}
  /\ (/\ LastIsEquality
      /\ Len(last.eq.variables) >= 2
      /\ DegreeAnalysisSucceeds
      /\ LastDegree <= 1) => last.eq.equation_type = "linear"

\* An equality with two variables and degree 1 has been tagged linear.
C12_Witness ==
  /\ LastIsEquality
  /\ Len(last.eq.variables) >= 2
  /\ ParametricTest
  /\ DegreeAnalysisSucceeds
  /\ LastDegree = 1
  /\ last.eq.equation_type = "linear"

\* An equality with two variables has passed the parametric rule without its
\* tag: the degree analysis fails there as it failed at the degree rules.
C12_WitnessPassed ==
  /\ LastIsEquality
  /\ Cardinality(LastSyms) >= 2
  /\ ~ IsPolynomial(PSub(LastLhs.v.p, LastRhs.v.p))
  /\ last.eq.equation_type \in {"functional", "identity", "other"}

====
